---------------------------- MODULE Spec2Model ----------------------------
(***************************************************************************)
(* A model of the Keyword Trend Explorer ("g_trends v1/app.py" and its     *)
(* twin "g_trends v1/app_openai.py"): the anomaly annotator                *)
(* compute_anomalies, the memoized Series Fetcher fetch_trends_2023_us and *)
(* the explanation step get_hf_explanation / get_openai_explanation.       *)
(*                                                                         *)
(* Three specifications share the variables:                               *)
(*   SpecAnnotate  compute_anomalies applied to a bounded input frame      *)
(*   Spec          a session of fetch_trends_2023_us calls behind          *)
(*                 st.cache_data                                           *)
(*   SpecExplain   a session of explanation calls behind st.cache_data /   *)
(*                 st.cache_resource                                       *)
(***************************************************************************)
EXTENDS Integers, Sequences, FiniteSets, TLC

VARIABLES
    \* ---- compute_anomalies ------------------------------------------------
    frames,            \* the heap of DataFrame objects; a reference is an index
    df,                \* reference of the frame handed to compute_anomalies
    given,             \* the content of frames[df] when the session started
    change_threshold,  \* the threshold argument, a decimal literal num/den
    rets,              \* references returned by the successive calls
    \* ---- fetch_trends_2023_us ---------------------------------------------
    cache,             \* st.cache_data store of fetch_trends_2023_us
    queries,           \* per keyword: pytrends.interest_over_time() calls issued
    sleeps,            \* number of time.sleep() calls executed so far
    calls,             \* the fetch_trends_2023_us calls made so far: keyword,
                       \* whether a non-empty Series was returned, whether
                       \* the except clause ran
    call,              \* what the last fetch_trends_2023_us call did
    \* ---- get_hf_explanation / get_openai_explanation ----------------------
    app,               \* the program run: "app.py" or "app_openai.py"
    pipes,             \* st.cache_resource store of get_textgen_pipeline
    expl,              \* st.cache_data store of the explanation function
    built,             \* number of backend constructions attempted
    invoked,           \* number of completion calls issued to a backend
    ecalls,            \* number of explanation calls made so far
    ecall              \* what the last explanation call did

vars == <<frames, df, given, change_threshold, rets,
          cache, queries, sleeps, calls, call,
          app, pipes, expl, built, invoked, ecalls, ecall>>

annVars   == <<frames, df, given, change_threshold, rets>>
fetchVars == <<cache, queries, sleeps, calls, call>>
explVars  == <<app, pipes, expl, built, invoked, ecalls, ecall>>

(***************************************************************************)
(* IEEE-754 binary64 arithmetic, bit for bit.                              *)
(*                                                                         *)
(* interest.astype(float) makes the column float64 and pct_change()        *)
(* computes  interest / interest.shift() - 1  in it; the result is         *)
(* compared with the Python float change_threshold.  A double is           *)
(*   [cls, neg, exp, hi, lo]   cls in {"nan", "inf", "zero", "num"}        *)
(* and a "num" is (-1)^neg * M * 2^(exp - 52) with the 53-bit significand  *)
(* M = hi * 2^27 + lo, 2^25 <= hi < 2^26, 0 <= lo < 2^27 (two limbs, so    *)
(* that no intermediate value leaves the 32-bit integers).  Rounding is    *)
(* round-to-nearest, ties-to-even.  The operands of a division are         *)
(* integers below 2^8 (search interest is 0..100), so astype's int ->      *)
(* float conversion is exact and the division takes them as integers.      *)
(***************************************************************************)
Lo  == 2^27        \* radix of the low limb
Top == 2^26        \* bound of the high limb
Msb == 2^25        \* leading bit of a normalised high limb

NaN  == [cls |-> "nan",  neg |-> FALSE, exp |-> 0, hi |-> 0, lo |-> 0]
PInf == [cls |-> "inf",  neg |-> FALSE, exp |-> 0, hi |-> 0, lo |-> 0]
Zero == [cls |-> "zero", neg |-> FALSE, exp |-> 0, hi |-> 0, lo |-> 0]
Num(neg, exp, hi, lo) == [cls |-> "num", neg |-> neg, exp |-> exp, hi |-> hi, lo |-> lo]

\* a - b and a + 1 on limb pairs, a >= b
Sub2(a, b) ==
    IF a.lo >= b.lo THEN [hi |-> a.hi - b.hi, lo |-> a.lo - b.lo]
    ELSE [hi |-> a.hi - b.hi - 1, lo |-> a.lo + Lo - b.lo]

Add1(a) ==
    IF a.lo + 1 = Lo THEN [hi |-> a.hi + 1, lo |-> 0] ELSE [hi |-> a.hi, lo |-> a.lo + 1]

RECURSIVE BitLen(_)
BitLen(n) == IF n = 0 THEN 0 ELSE 1 + BitLen(n \div 2)

\* The exact value m * 2^(exp - 52) of a 53-bit field m, normalised
RECURSIVE Norm(_, _, _)
Norm(m, exp, neg) ==
    IF m.hi = 0 /\ m.lo = 0 THEN Zero
    ELSE IF m.hi = 0
    THEN Norm([hi |-> m.lo \div 2, lo |-> (m.lo % 2) * Top], exp - 26, neg)
    ELSE LET z == 26 - BitLen(m.hi)
         IN  Num(neg, exp - z,
                 m.hi * 2^z + m.lo \div 2^(27 - z),
                 (m.lo % 2^(27 - z)) * 2^z)

\* e with 2^e <= v/p < 2^(e+1), for v > 0 and p > 0
RECURSIVE NormExp(_, _)
NormExp(v, p) ==
    IF v >= 2 * p THEN NormExp(v, 2 * p) + 1
    ELSE IF v < p THEN NormExp(2 * v, p) - 1
    ELSE 0

\* k more binary digits of r/d (r < d < 2^15, k < 15) and the remainder
Digits(r, d, k) == [q |-> (r * 2^k) \div d, r |-> (r * 2^k) % d]

\* float(v) / float(p) for integers v >= 0, p >= 0, as numpy divides float64:
\* x/0 is inf, 0/0 is nan, no exception.  52 fraction digits, a guard digit
\* and the sticky remainder decide the rounding.
FDiv(v, p) ==
    IF p = 0 THEN (IF v = 0 THEN NaN ELSE PInf)
    ELSE IF v = 0 THEN Zero
    ELSE LET e  == NormExp(v, p)
             vs == IF e < 0 THEN v * 2^(0 - e) ELSE v
             ps == IF e > 0 THEN p * 2^e ELSE p
             s1 == Digits(vs - ps, ps, 13)
             s2 == Digits(s1.r, ps, 12)
             s3 == Digits(s2.r, ps, 14)
             s4 == Digits(s3.r, ps, 13)
             s5 == Digits(s4.r, ps, 1)
             m  == [hi |-> Msb + s1.q * 2^12 + s2.q, lo |-> s3.q * 2^13 + s4.q]
             up == s5.q = 1 /\ (s5.r # 0 \/ m.lo % 2 = 1)
             mr == IF up THEN Add1(m) ELSE m
         IN  IF mr.hi = Top THEN Num(FALSE, e + 1, Msb, 0)
             ELSE Num(FALSE, e, mr.hi, mr.lo)

\* x - 1.0 for a double x >= 0 with -27 < x.exp < 53
FSub1(x) ==
    CASE x.cls = "nan"  -> NaN
      [] x.cls = "inf"  -> PInf
      [] x.cls = "zero" -> Num(TRUE, 0, Msb, 0)
      [] x.cls = "num"  ->
           LET e == x.exp
               m == [hi |-> x.hi, lo |-> x.lo]
           IN  IF e >= 0
               THEN \* x >= 1: x - 1 is exact, in units of 2^(e - 52)
                    LET one == IF 52 - e >= 27
                               THEN [hi |-> 2^(25 - e), lo |-> 0]
                               ELSE [hi |-> 0, lo |-> 2^(52 - e)]
                    IN  Norm(Sub2(m, one), e, FALSE)
               ELSE \* x < 1: -(1 - x) in units of 2^-53, x = (mq + mr/2^k) units
                    LET k  == 0 - e - 1
                        mq == [hi |-> m.hi \div 2^k,
                               lo |-> (m.hi % 2^k) * 2^(27 - k) + m.lo \div 2^k]
                        mr == m.lo % 2^k
                        d  == Sub2([hi |-> Top, lo |-> 0], mq)
                    IN  IF mr = 0 THEN Norm(d, 0 - 1, TRUE)
                        ELSE LET b  == Sub2(d, [hi |-> 0, lo |-> 1])
                                 up == \/ 2 * mr < 2^k
                                       \/ 2 * mr = 2^k /\ b.lo % 2 = 1
                                 dr == IF up THEN Add1(b) ELSE b
                             IN  IF dr.hi = Top THEN Num(TRUE, 0, Msb, 0)
                                 ELSE Num(TRUE, 0 - 1, dr.hi, dr.lo)

\* abs(x) >= t for a double x and a double t > 0
FAbsGe(x, t) ==
    CASE x.cls = "nan"  -> FALSE
      [] x.cls = "inf"  -> TRUE
      [] x.cls = "zero" -> FALSE
      [] x.cls = "num"  -> \/ x.exp > t.exp
                           \/ x.exp = t.exp /\ x.hi > t.hi
                           \/ x.exp = t.exp /\ x.hi = t.hi /\ x.lo >= t.lo

\* pd.notna(x) and x > 0 ; pd.notna(x) and x < 0
FPos(x) == x.cls \in {"inf", "num"} /\ ~x.neg
FNeg(x) == x.cls \in {"inf", "num"} /\ x.neg

\* the Python float a decimal literal num/den denotes (0.30 is 3/10)
ToFloat(t) == FDiv(t.num, t.den)

(***************************************************************************)
(* DataFrames.  A frame is [columns, rows]: the column names in order and  *)
(* one record per row.  Frames live in a heap (frames) and are handed      *)
(* around by reference, as Python does, so that a call that wrote into its *)
(* argument would show.                                                    *)
(***************************************************************************)
Range(s) == {s[i] : i \in DOMAIN s}

\* a timestamp: the day counted from 2023-01-01 (the first day of the fixed
\* timeframe, a Sunday) and the timezone it carries ("naive": none)
Date(day, tz) == [day |-> day, tz |-> tz]

Row(date, interest) == [date |-> date, interest |-> interest]

WeekDays == 7

\* the frame fetch_trends_2023_us builds: columns date, interest
BaseFrame(rows) == [columns |-> <<"date", "interest">>, rows |-> rows]

\* df.empty
DfEmpty(f) == Len(f.rows) = 0

\* f[col] = vals : an existing column is overwritten in place, a new one is
\* appended after the others
SetColumn(f, col, vals) ==
    [columns |-> IF col \in Range(f.columns) THEN f.columns ELSE Append(f.columns, col),
     rows    |-> [i \in 1..Len(f.rows) |-> (col :> vals[i]) @@ f.rows[i]]]

\* df.copy(): a new object with the same content
DfCopyAlias(fs, r) == [frames |-> fs, ref |-> r]
DfCopyTail(fs, r) ==
    [frames |-> Append(fs, [fs[r] EXCEPT !.rows = Tail(@)]), ref |-> Len(fs) + 1]
DfCopy(fs, r) == [frames |-> Append(fs, fs[r]), ref |-> Len(fs) + 1]

\* df.assign(pct_change=pd.Series(dtype=float), is_anomaly=False, direction=None)
\* on an empty frame: a new object, the three columns added, still no row
DfAssignEmpty(fs, r) ==
    LET a == SetColumn(SetColumn(SetColumn(fs[r],
                 "pct_change", << >>), "is_anomaly", << >>), "direction", << >>)
    IN  [frames |-> Append(fs, a), ref |-> Len(fs) + 1]

\* interest.pct_change(): interest / interest.shift() - 1, NaN in row one
pct_change(interest) ==
    [i \in 1..Len(interest) |->
        IF i = 1 THEN NaN ELSE FSub1(FDiv(interest[i], interest[i - 1]))]

\* the lambda of line 88
DirectionSwapped(x) == IF FPos(x) THEN "dropped" ELSE IF FNeg(x) THEN "spiked" ELSE "None"
Direction(x) == IF FPos(x) THEN "spiked" ELSE IF FNeg(x) THEN "dropped" ELSE "None"

\* compute_anomalies(df, change_threshold) on the heap fs, df the reference r:
\* the heap afterwards and the reference returned
compute_anomalies(fs, r, t) ==
    IF DfEmpty(fs[r]) THEN DfAssignEmpty(fs, r)
    ELSE LET c        == DfCopy(fs, r)
             out      == c.ref
             interest == [i \in 1..Len(c.frames[out].rows) |-> c.frames[out].rows[i].interest]
             pct      == pct_change(interest)
             f1       == SetColumn(c.frames[out], "pct_change", pct)
             f2       == SetColumn(f1, "is_anomaly",
                             [i \in 1..Len(pct) |-> FAbsGe(pct[i], ToFloat(t))])
             f3       == SetColumn(f2, "direction",
                             [i \in 1..Len(pct) |-> Direction(f2.rows[i].pct_change)])
         IN  [frames |-> [c.frames EXCEPT ![out] = f3], ref |-> out]

(***************************************************************************)
(* SpecAnnotate: compute_anomalies on bounded inputs.                      *)
(***************************************************************************)
MaxLen == 3

\* weekly search-interest values: zero, the 30% boundary both ways around 10
\* (7, 13), the 10% boundary (9, 11) and a change below either (10 -> 10)
Interests == {0, 7, 9, 10, 11, 13}

\* change_threshold as the caller writes it: 0.30 (the default and the value
\* the UI passes), 0.25 and 0.1
DefaultThreshold == [num |-> 3, den |-> 10]
Thresholds == {DefaultThreshold, [num |-> 1, den |-> 4], [num |-> 1, den |-> 10]}

\* the series of section 8 of the specification
ExampleValues == <<100, 135, 90, 90, 0, 50>>

SeriesOf(values) ==
    BaseFrame([i \in 1..Len(values) |-> Row(Date(WeekDays * (i - 1), "naive"), values[i])])

InputValues ==
    UNION {[1..n -> Interests] : n \in 0..MaxLen} \cup {ExampleValues}

NoFetch ==
    /\ cache = << >> /\ queries = << >> /\ sleeps = 0 /\ calls = << >> /\ call = << >>

NoExplain ==
    /\ app = "app.py" /\ pipes = << >> /\ expl = << >> /\ built = 0 /\ invoked = 0
    /\ ecalls = 0 /\ ecall = << >>

NoAnnotate ==
    /\ frames = << >> /\ df = 0 /\ given = << >>
    /\ change_threshold = DefaultThreshold /\ rets = << >>

InitAnnotate ==
    /\ \E values \in InputValues : frames = <<SeriesOf(values)>>
    /\ df = 1
    /\ given = frames[df]
    /\ change_threshold \in Thresholds
    /\ rets = << >>
    /\ NoFetch /\ NoExplain

\* trends_an = compute_anomalies(trends_df, change_threshold)
ComputeAnomalies ==
    /\ rets = << >>
    /\ LET res == compute_anomalies(frames, df, change_threshold)
       IN  /\ frames' = res.frames
           /\ rets' = <<[arg |-> df, ref |-> res.ref]>>
    /\ UNCHANGED <<df, given, change_threshold, fetchVars, explVars>>

\* a second call, on the same input again or on the frame the first returned
Again ==
    /\ Len(rets) = 1
    /\ \E arg \in {df, rets[1].ref} :
         LET res == compute_anomalies(frames, arg, change_threshold)
         IN  /\ frames' = res.frames
             /\ rets' = Append(rets, [arg |-> arg, ref |-> res.ref])
    /\ UNCHANGED <<df, given, change_threshold, fetchVars, explVars>>

NextAnnotate == ComputeAnomalies \/ Again

SpecAnnotate == InitAnnotate /\ [][NextAnnotate]_vars

\* ---- the annotated frame of the first call and its input, row by row ----
Annotated == rets # << >>
Out == frames[rets[1].ref]
N == Len(given.rows)
Value(i) == given.rows[i].interest
Abs(n) == IF n < 0 THEN 0 - n ELSE n

Flagged == {i \in 1..N : Out.rows[i].is_anomaly}

\* C1: for every index whose previous value is zero the annotator leaves
\* relative_change undefined (NaN), is_anomaly false and direction none,
\* whatever the value is; and on the example series at threshold 0.30 the
\* flagged points are exactly the second, third and fifth (indices 1, 2, 4
\* counted from zero), the sixth not.
C1_ZeroPreviousUndefined ==
    Annotated =>
        /\ \A i \in 2..N :
             Value(i - 1) = 0 =>
                /\ Out.rows[i].pct_change = NaN
                /\ ~Out.rows[i].is_anomaly
                /\ Out.rows[i].direction = "None"
        /\ (given = SeriesOf(ExampleValues) /\ change_threshold = DefaultThreshold)
              => Flagged = {2, 3, 5}

\* what the code does there instead: 0 -> 0 is NaN and unflagged, 0 -> v > 0
\* is +inf, flagged and "spiked"
ZeroPreviousInCode ==
    Annotated =>
        \A i \in 2..N :
            Value(i - 1) = 0 =>
               IF Value(i) = 0
               THEN /\ Out.rows[i].pct_change = NaN
                    /\ ~Out.rows[i].is_anomaly
                    /\ Out.rows[i].direction = "None"
               ELSE /\ Out.rows[i].pct_change = PInf
                    /\ Out.rows[i].is_anomaly
                    /\ Out.rows[i].direction = "spiked"

\* C2: for every threshold t and every index i that is the first point or
\* has a non-zero previous value, is_anomaly[i] holds exactly when i is not
\* the first point and |value[i] - value[i-1]| >= t * value[i-1]; the
\* comparison is inclusive and the first point is never flagged.
C2_InclusiveThreshold ==
    Annotated =>
        \A i \in 1..N :
            (i = 1 \/ Value(i - 1) # 0) =>
                (Out.rows[i].is_anomaly <=>
                    /\ i > 1
                    /\ Abs(Value(i) - Value(i - 1)) * change_threshold.den
                          >= change_threshold.num * Value(i - 1))

\* the same statement at the thresholds whose binary rounding does not move
\* the boundary: 0.30 (the one the program uses) and 0.25
InclusiveAtDefault ==
    change_threshold.den # 10 \/ change_threshold.num # 1 => C2_InclusiveThreshold

\* C3: for every index i that is the first point or has a non-zero previous
\* value, direction[i] is "spiked" iff i > 0 and value[i] > value[i-1],
\* "dropped" iff i > 0 and value[i] < value[i-1], none otherwise, at every
\* threshold alike.
C3_DirectionBySign ==
    Annotated =>
        \A i \in 1..N :
            (i = 1 \/ Value(i - 1) # 0) =>
                Out.rows[i].direction =
                    IF i > 1 /\ Value(i) > Value(i - 1) THEN "spiked"
                    ELSE IF i > 1 /\ Value(i) < Value(i - 1) THEN "dropped"
                    ELSE "None"

\* a rise and a fall, neither of them flagged, and the first point
C3_Witness ==
    /\ Annotated
    /\ N > 2
    /\ Out.rows[1].direction = "None"
    /\ \E i \in 2..N : Out.rows[i].direction = "spiked" /\ ~Out.rows[i].is_anomaly
    /\ \E i \in 2..N : Out.rows[i].direction = "dropped" /\ ~Out.rows[i].is_anomaly
    /\ \A i \in 2..N : Value(i - 1) # 0

\* C4: the annotator's output has exactly as many points as its input, the
\* same dates and values in the same order; the empty series gives an empty
\* output.
C4_SameLength ==
    Annotated =>
        /\ Len(Out.rows) = N
        /\ \A i \in 1..N : /\ Out.rows[i].date = given.rows[i].date
                           /\ Out.rows[i].interest = given.rows[i].interest

\* the empty series annotated: no row, the three columns added
C4_Witness ==
    /\ Annotated
    /\ N = 0
    /\ Out = [columns |-> <<"date", "interest", "pct_change", "is_anomaly", "direction">>,
              rows |-> << >>]

\* C9: a second call, on the same input again or on the frame the first call
\* returned (its added columns overwritten), returns the same annotation as
\* the first, and the input frame is as it was given.
C9_Idempotent ==
    /\ \A k \in 2..Len(rets) : frames[rets[k].ref] = frames[rets[1].ref]
    /\ Annotated => frames[df] = given

\* the annotated frame annotated again, with flagged points in it
C9_Witness ==
    /\ Len(rets) = 2
    /\ rets[2].arg = rets[1].ref
    /\ rets[2].ref # rets[1].ref
    /\ Flagged # {}
    /\ frames[df] = given

(***************************************************************************)
(* fetch_trends_2023_us behind st.cache_data.                              *)
(*                                                                         *)
(* The upstream (pytrends) is the environment: each step of the try block  *)
(* either raises an Exception with some text or goes on, and               *)
(* interest_over_time() answers None, an empty table or a table            *)
(*   [index, values, partial, freq]                                        *)
(* with one row per sample: index the timestamps in ascending order        *)
(* without repetition, values the keyword's column, partial the            *)
(* 'isPartial' column, freq the index's frequency attribute ("None" as     *)
(* pytrends leaves it, or "W-SUN" for an index that is already weekly on   *)
(* Sundays).  Strings are sequences of characters and words, so that the   *)
(* 'in' test of the handler is a search.                                   *)
(***************************************************************************)
Keywords == {"electric cars", "bitcoin"}

MaxCalls == 3      \* fetch calls in one session
MaxWeek  == 2      \* the upstream samples lie in weeks 0..MaxWeek

\* the days the upstream may have a sample for: the Sundays of the weeks and
\* one Wednesday
UpDays == {WeekDays * w : w \in 0..MaxWeek} \cup {3}

\* the number the upstream holds for a keyword and a day
Interest(k, day) ==
    IF k = "bitcoin" THEN (day * 5) % 101 ELSE 100 - day * 4

\* the value of a week the upstream has no sample for (NaN after asfreq)
Missing == 0 - 1

RECURSIVE Ascending(_)
Ascending(S) ==
    IF S = {} THEN << >>
    ELSE LET m == CHOOSE x \in S : \A y \in S : x <= y
         IN  <<m>> \o Ascending(S \ {m})

Weekly(S) ==
    /\ \A d \in S : d % WeekDays = 0
    /\ \A d \in S : d + WeekDays \in S \/ \A e \in S : e <= d

Table(k, S, tz, freq) ==
    LET days == Ascending(S)
    IN  [index   |-> [i \in 1..Len(days) |-> Date(days[i], tz)],
         values  |-> [i \in 1..Len(days) |-> Interest(k, days[i])],
         partial |-> [i \in 1..Len(days) |-> FALSE],
         freq    |-> freq]

Tables(k) ==
    {Table(k, S, tz, "None") : S \in (SUBSET UpDays) \ {{}}, tz \in {"naive", "UTC"}}
    \cup {Table(k, S, tz, "W-SUN") :
              S \in {T \in (SUBSET UpDays) \ {{}} : Weekly(T)}, tz \in {"naive", "UTC"}}

\* str(e) of the exceptions the upstream raises
ErrorTexts ==
    { <<"code", " ", "4", "2", "9">>,
      <<"TooManyRequests", "Error">>,
      <<"code", " ", "5", "0", "0">>,
      <<"4", "2", " ", "9">>,
      << >> }

TryStepsSleepFirst == <<"sleep", "TrendReq", "build_payload", "interest_over_time">>
TrySteps == <<"TrendReq", "build_payload", "sleep", "interest_over_time">>

\* the steps of the try block that can raise
Raising == {"TrendReq", "build_payload", "interest_over_time"}

Outcomes(k) ==
    {[kind |-> "raise", at |-> s, err |-> e, table |-> << >>] : s \in Raising, e \in ErrorTexts}
    \cup {[kind |-> r, at |-> "", err |-> << >>, table |-> << >>] : r \in {"none", "empty"}}
    \cup {[kind |-> "table", at |-> "", err |-> << >>, table |-> t] : t \in Tables(k)}

\* pat in text
Contains(text, pat) ==
    \E i \in 1..(Len(text) - Len(pat) + 1) : SubSeq(text, i, i + Len(pat) - 1) = pat

\* pd.DataFrame(columns=["date", "interest"])
EmptyFrame == BaseFrame(<< >>)

\* "429" in str(e) or "TooManyRequests" in str(e)
IsRateLimitOnly429(text) == Contains(text, <<"4", "2", "9">>)
IsRateLimit(text) ==
    Contains(text, <<"4", "2", "9">>) \/ Contains(text, <<"TooManyRequests">>)

RateLimitMessage ==
    <<"Rate limit exceeded. Please wait a few minutes before trying again.">>

\* the except clause: one st.error and an empty frame
Handler(text) ==
    IF IsRateLimit(text)
    THEN [signals |-> <<[kind |-> "rate limited", text |-> RateLimitMessage]>>,
          ret |-> EmptyFrame]
    ELSE [signals |-> <<[kind |-> "fetch failed",
                         text |-> <<"Error fetching trends data: ">> \o text]>>,
          ret |-> EmptyFrame]

\* series.asfreq("W-SUN"): the Sundays from the first to the last timestamp,
\* each with the value of its sample or, where there is none, NaN
asfreq(series) ==
    LET lo    == series.index[1].day
        hi    == series.index[Len(series.index)].day
        first == lo + ((WeekDays - (lo % WeekDays)) % WeekDays)
        n     == IF first > hi THEN 0 ELSE (hi - first) \div WeekDays + 1
        day(i) == first + WeekDays * (i - 1)
        at(d) == IF \E j \in DOMAIN series.index : series.index[j].day = d
                 THEN series.values[CHOOSE j \in DOMAIN series.index :
                                        series.index[j].day = d]
                 ELSE Missing
    IN  [index  |-> [i \in 1..n |-> Date(day(i), series.index[1].tz)],
         values |-> [i \in 1..n |-> at(day(i))],
         freq   |-> "W-SUN"]

\* series.index.tz_localize(None)
TzKept(date) == date
tz_localize_none(date) == Date(date.day, "naive")

\* lines 53-60: the keyword's column, aligned, as a frame date/interest
Normalised(table) ==
    LET col    == [index |-> table.index, values |-> table.values, freq |-> table.freq]
        series == IF col.freq = "None" THEN asfreq(col) ELSE col
    IN  BaseFrame([i \in 1..Len(series.index) |->
                      Row(tz_localize_none(series.index[i]), series.values[i])])

StepsUntil(s) ==
    SubSeq(TrySteps, 1, CHOOSE i \in DOMAIN TrySteps : TrySteps[i] = s)

\* the body of fetch_trends_2023_us for keyword k when the upstream does up
fetch_trends_2023_us(k, up) ==
    CASE up.kind = "raise" ->
           LET h == Handler(up.err)
           IN  [steps |-> StepsUntil(up.at), signals |-> h.signals,
                ret |-> h.ret, raised |-> FALSE]
      [] up.kind \in {"none", "empty"} ->
           [steps |-> TrySteps, signals |-> << >>, ret |-> EmptyFrame, raised |-> FALSE]
      [] up.kind = "table" ->
           [steps |-> TrySteps, signals |-> << >>,
            ret |-> Normalised(up.table), raised |-> FALSE]

Count(steps, s) == Cardinality({i \in DOMAIN steps : steps[i] = s})

\* st.cache_data: the entry of a key is added and stays
CacheStoreEvicting(c, k, v) == k :> v
CacheStoreFailuresDropped(c, k, v) == IF DfEmpty(v) THEN c ELSE (k :> v) @@ c
CacheStore(c, k, v) == (k :> v) @@ c

NoCall ==
    [keyword |-> "", hit |-> FALSE,
     up |-> [kind |-> "", at |-> "", err |-> << >>, table |-> << >>],
     steps |-> << >>, signals |-> << >>, ret |-> EmptyFrame, raised |-> FALSE]

Init ==
    /\ cache = << >>
    /\ queries = [k \in Keywords |-> 0]
    /\ sleeps = 0
    /\ calls = << >>
    /\ call = NoCall
    /\ NoAnnotate /\ NoExplain

\* fetch_trends_2023_us(keyword) with the keyword in the cache: the stored
\* value is returned and the body does not run
FetchCached(k) ==
    /\ Len(calls) < MaxCalls
    /\ k \in DOMAIN cache
    /\ calls' = Append(calls, [keyword |-> k, ok |-> ~DfEmpty(cache[k]),
                                error |-> FALSE])
    /\ call' = [NoCall EXCEPT !.keyword = k, !.hit = TRUE, !.ret = cache[k]]
    /\ UNCHANGED <<cache, queries, sleeps, annVars, explVars>>

\* fetch_trends_2023_us(keyword) with the keyword not in the cache: the body
\* runs against the upstream and what it returns is stored
FetchRun(k) ==
    /\ Len(calls) < MaxCalls
    /\ k \notin DOMAIN cache
    /\ \E up \in Outcomes(k) :
         LET r == fetch_trends_2023_us(k, up)
         IN  /\ call' = [keyword |-> k, hit |-> FALSE, up |-> up, steps |-> r.steps,
                         signals |-> r.signals, ret |-> r.ret, raised |-> r.raised]
             /\ queries' = [queries EXCEPT ![k] = @ + Count(r.steps, "interest_over_time")]
             /\ sleeps' = sleeps + Count(r.steps, "sleep")
             /\ cache' = IF r.raised THEN cache ELSE CacheStore(cache, k, r.ret)
             /\ calls' = Append(calls, [keyword |-> k, ok |-> ~r.raised /\ ~DfEmpty(r.ret),
                                         error |-> up.kind = "raise"])
    /\ UNCHANGED <<annVars, explVars>>

Next ==
    \/ \E k \in Keywords : FetchCached(k)
    \/ \E k \in Keywords : FetchRun(k)

Spec == Init /\ [][Next]_vars

\* ---- the last call: the upstream table it was answered with ----
Failed == call.up.kind = "raise"
Answered == call.up.kind = "table"
Rows == call.ret.rows
UpHas(day) == \E j \in DOMAIN call.up.table.index : call.up.table.index[j].day = day
UpAt(day) ==
    call.up.table.values[CHOOSE j \in DOMAIN call.up.table.index :
                             call.up.table.index[j].day = day]

\* an HTTP 429 indicator in an error text: the digits 429 in a row, or the
\* name of the status, TooManyRequests
Has429Indicator(text) ==
    \/ \E i \in DOMAIN text : text[i] = "TooManyRequests"
    \/ \E i \in 1..(Len(text) - 2) :
          text[i] = "4" /\ text[i + 1] = "2" /\ text[i + 2] = "9"

\* C5: on an upstream failure the fetcher raises nothing, returns the empty
\* Series and signals exactly one condition: "rate limited" when the error
\* text carries an HTTP 429 indicator, otherwise "fetch failed" with the
\* error text in it.
C5_FailureContained ==
    Failed =>
        /\ ~call.raised
        /\ call.ret = EmptyFrame
        /\ Len(call.signals) = 1
        /\ IF Has429Indicator(call.up.err)
           THEN call.signals[1].kind = "rate limited"
           ELSE /\ call.signals[1].kind = "fetch failed"
                /\ \E i \in 1..(Len(call.signals[1].text) + 1) :
                      SubSeq(call.signals[1].text, i, Len(call.signals[1].text))
                         = call.up.err

\* a rate-limit error raised by the data query, after the delay
C5_Witness ==
    /\ Failed
    /\ call.up.at = "interest_over_time"
    /\ call.up.err = <<"code", " ", "4", "2", "9">>
    /\ call.signals = <<[kind |-> "rate limited", text |-> RateLimitMessage]>>
    /\ call.ret = EmptyFrame

\* what C6 and its amendment share: only date and interest, no timezone,
\* Sundays one week apart in increasing order
WeeklyCadence ==
    /\ call.ret.columns = <<"date", "interest">>
    /\ \A i \in DOMAIN Rows : Rows[i].date.tz = "naive"
    /\ \A i \in DOMAIN Rows : Rows[i].date.day % WeekDays = 0
    /\ \A i \in 1..(Len(Rows) - 1) : Rows[i + 1].date.day = Rows[i].date.day + WeekDays

\* C6 as claimed: on every non-empty upstream response the returned Series
\* has the weekly cadence and every point carries the upstream number for
\* its date, none being without a numeric value.
C6_EveryPointUpstream ==
    Answered =>
        /\ WeeklyCadence
        /\ \A i \in DOMAIN Rows :
              /\ UpHas(Rows[i].date.day)
              /\ Rows[i].interest = UpAt(Rows[i].date.day)

\* C6 amended: the returned Series has the weekly cadence; every upstream
\* sample dated on a Sunday is in it with the upstream number, and a point
\* for a week the upstream has no sample for carries no number.
C6_WeeklyAligned ==
    Answered =>
        /\ WeeklyCadence
        /\ \A i \in DOMAIN Rows :
              Rows[i].interest = IF UpHas(Rows[i].date.day)
                                 THEN UpAt(Rows[i].date.day) ELSE Missing
        /\ \A j \in DOMAIN call.up.table.index :
              call.up.table.index[j].day % WeekDays = 0
                 => \E i \in DOMAIN Rows : Rows[i].date = Date(call.up.table.index[j].day, "naive")

\* a response with timezone, a sample off the cadence and a week without a
\* sample, aligned
C6_Witness ==
    /\ Answered
    /\ call.up.table.freq = "None"
    /\ \E j \in DOMAIN call.up.table.index :
          /\ call.up.table.index[j].tz = "UTC"
          /\ call.up.table.index[j].day % WeekDays # 0
    /\ Len(Rows) = 3
    /\ Rows[1].interest # Missing
    /\ Rows[2].interest = Missing
    /\ Rows[3].interest # Missing

Succeeded(k) == \E i \in DOMAIN calls : calls[i].keyword = k /\ calls[i].ok

\* C10: once a fetch for a keyword has returned a non-empty Series, that
\* Series stays memoized, and every later fetch for the keyword returns it
\* without running any step of the body: no upstream call and no delay,
\* whatever is fetched in between.
C10_MemoizedSuccess ==
    [][ /\ \A k \in Keywords :
             Succeeded(k) =>
                /\ k \in DOMAIN cache /\ k \in DOMAIN cache'
                /\ cache'[k] = cache[k]
                /\ queries'[k] = queries[k]
                /\ (calls' # calls /\ call'.keyword = k) =>
                      /\ call'.hit
                      /\ call'.ret = cache[k]
                      /\ call'.steps = << >>
                      /\ sleeps' = sleeps
        /\ (calls' # calls /\ ~DfEmpty(call'.ret)) =>
              /\ call'.keyword \in DOMAIN cache'
              /\ cache'[call'.keyword] = call'.ret
      ]_vars

\* a keyword fetched with success, another keyword fetched, the first one
\* fetched again
C10_Witness ==
    /\ Len(calls) = 3
    /\ calls[1].ok
    /\ calls[1].keyword = calls[3].keyword
    /\ calls[2].keyword # calls[1].keyword
    /\ call.hit
    /\ ~DfEmpty(call.ret)
    /\ queries[call.keyword] = 1

\* ---- the courtesy delay ----
\* the steps of the try block that stand before the delay
BeforeDelay == {"TrendReq", "build_payload"}

\* the number of blocking sleeps the body does when the upstream does up
DelaysDue(up) == IF up.kind = "raise" /\ up.at \in BeforeDelay THEN 0 ELSE 1

\* C11 as stated: every execution of the body sleeps exactly once, the ones
\* that fail at client creation or at the payload build included.
C11_DelayOnEveryFetch ==
    (calls # << >> /\ ~call.hit) => Count(call.steps, "sleep") = 1

\* C11: an execution of the body sleeps at most once and never again as a
\* retry; it sleeps exactly once, before its only upstream query, when the
\* client creation and the payload build have gone through, whether the
\* query then answers with data, with no data, or raises; it does not sleep
\* when the client creation or the payload build raises.  A memoized fetch
\* sleeps not at all.
C11_DelayAtMostOnce ==
    [][ calls' # calls =>
          /\ sleeps' - sleeps = Count(call'.steps, "sleep")
          /\ call'.hit => sleeps' = sleeps
          /\ ~call'.hit =>
                /\ sleeps' - sleeps <= 1
                /\ sleeps' - sleeps = DelaysDue(call'.up)
                /\ Count(call'.steps, "interest_over_time") <= 1
                /\ queries'[call'.keyword] - queries[call'.keyword]
                      = Count(call'.steps, "interest_over_time")
                /\ \A i, j \in DOMAIN call'.steps :
                      (call'.steps[i] = "sleep" /\ call'.steps[j] = "interest_over_time")
                         => i < j
                /\ \A i \in DOMAIN call'.steps :
                      call'.steps[i] = "interest_over_time"
                         => \E j \in DOMAIN call'.steps : call'.steps[j] = "sleep"
      ]_vars

\* a fetch that slept once and whose query raised, then a fetch of the other
\* keyword that failed at the payload build without sleeping
C11_Witness ==
    /\ Len(calls) = 2
    /\ calls[1].error /\ calls[2].error
    /\ queries[calls[1].keyword] = 1
    /\ sleeps = 1
    /\ ~call.hit
    /\ call.up.kind = "raise" /\ call.up.at = "build_payload"
    /\ Count(call.steps, "sleep") = 0

\* ---- memoized failures ----
Errored(k) == \E i \in DOMAIN calls : calls[i].keyword = k /\ calls[i].error

\* C12: a fetch for a keyword that came back empty after an upstream error
\* is memoized like any other: every later fetch for the keyword in the
\* session returns that empty Series from the cache, running no step of the
\* body and showing no new error, and no keyword is ever queried upstream
\* more than once.
C12_MemoizedFailure ==
    [][ /\ \A k \in Keywords :
             Errored(k) =>
                /\ k \in DOMAIN cache /\ k \in DOMAIN cache'
                /\ DfEmpty(cache[k])
                /\ cache'[k] = cache[k]
                /\ queries'[k] = queries[k]
                /\ (calls' # calls /\ call'.keyword = k) =>
                      /\ call'.hit
                      /\ call'.ret = cache[k]
                      /\ call'.steps = << >>
                      /\ call'.signals = << >>
                      /\ sleeps' = sleeps
        /\ \A k \in Keywords : queries[k] <= 1 /\ queries'[k] <= 1
        /\ (calls' # calls /\ ~call'.hit) =>
              /\ call'.keyword \in DOMAIN cache'
              /\ cache'[call'.keyword] = call'.ret
      ]_vars

\* a keyword whose fetch was rate limited, another keyword fetched, the
\* first one fetched again: answered empty from the cache, the upstream
\* queried once for it
C12_Witness ==
    /\ Len(calls) = 3
    /\ calls[1].error
    /\ calls[1].keyword = calls[3].keyword
    /\ calls[2].keyword # calls[1].keyword
    /\ call.hit
    /\ DfEmpty(call.ret)
    /\ call.signals = << >>
    /\ queries[call.keyword] = 1
    /\ sleeps >= 1

(***************************************************************************)
(* The explanation step: get_hf_explanation (app.py) and                   *)
(* get_openai_explanation (app_openai.py) behind st.cache_data, the        *)
(* backend handle of get_textgen_pipeline / get_openai_client behind       *)
(* st.cache_resource.  A Python string is a sequence of pieces (words,     *)
(* characters); a token is [none, s]: None, or the string s.  The backend  *)
(* is the environment: its construction succeeds or raises, and a          *)
(* completion call raises or returns a value of some shape.                *)
(***************************************************************************)
MaxExplain == 2    \* explanation calls in one session

Apps == {"app.py", "app_openai.py"}

Placeholder(a) ==
    IF a = "app.py" THEN "YOUR_HF_API_TOKEN_HERE" ELSE "YOUR_OPENAI_API_KEY_HERE"

None == [none |-> TRUE, s |-> << >>]
Str(s) == [none |-> FALSE, s |-> s]

Tokens(a) ==
    { None, Str(<< >>), Str(<<Placeholder(a)>>), Str(<<" ", Placeholder(a), " ">>),
      Str(<<" ">>), Str(<<"secret">>) }

\* the flagged points explanations are asked for: keyword, date, direction
Anomalies ==
    { [keyword |-> "bitcoin", date |-> [y |-> 2023, m |-> 1,  d |-> 8],  direction |-> "spiked"],
      [keyword |-> "bitcoin", date |-> [y |-> 2023, m |-> 10, d |-> 29], direction |-> "dropped"],
      [keyword |-> "news",    date |-> [y |-> 2023, m |-> 1,  d |-> 8],  direction |-> "dropped"] }

\* s.strip()
RECURSIVE lstrip(_)
lstrip(s) == IF s # << >> /\ Head(s) = " " THEN lstrip(Tail(s)) ELSE s
RECURSIVE rstrip(_)
rstrip(s) ==
    IF s # << >> /\ s[Len(s)] = " " THEN rstrip(SubSeq(s, 1, Len(s) - 1)) ELSE s
strip(s) == rstrip(lstrip(s))

\* date.strftime('%Y-%m-%d') and the format spec {date:%Y-%m-%d}
Digits10 == <<"0", "1", "2", "3", "4", "5", "6", "7", "8", "9">>
Digit(n) == Digits10[n + 1]
strftime(date) ==
    << Digit(date.y \div 1000), Digit((date.y \div 100) % 10),
       Digit((date.y \div 10) % 10), Digit(date.y % 10), "-",
       Digit(date.m \div 10), Digit(date.m % 10), "-",
       Digit(date.d \div 10), Digit(date.d % 10) >>

\* the region named in the prompt: 'the US', or pycountry's name of GEO_CODE
Region(a) == IF a = "app.py" THEN "the US" ELSE "United States"

build_explanation_prompt(a, keyword, date, direction) ==
    <<"Explain why search interest in '", keyword, "' might have ", direction, " on ">>
    \o strftime(date)
    \o <<" in ", Region(a), ". Give a concise 2-3 sentence hypothesis.">>

\* not token or token.strip() == "YOUR_..._HERE"
NoToken(a, token) ==
    token.none \/ token.s = << >> \/ strip(token.s) = <<Placeholder(a)>>

\* the canned sentence of the early return
Fallback(keyword, date, direction) ==
    <<"(Demo) Possible reason it ", direction,
      ": seasonal events, ", "news", " cycles, or viral content around ">>
    \o strftime(date) \o <<".">>

Tag(a) == IF a = "app.py" THEN "(Pipeline)" ELSE "(OpenAI)"

Unavailable(a) ==
    IF a = "app.py"
    THEN <<"(Pipeline)", " Text-generation pipeline unavailable. Ensure transformers is installed and model is accessible.">>
    ELSE <<"(OpenAI)", " Client unavailable. Ensure openai library is installed and API key is valid.">>

\* what a completion call may do.  app.py: raise; a list of dicts with a
\* generated_text ("text") or without a string there ("blank"); an empty
\* list ("none"); a bare string ("str"); a list of something that is no dict
\* ("other").  app_openai.py: raise; choices with content ("text"), with
\* None or '' as content ("blank"), no choices ("none"), content that is no
\* string ("other").
Shapes(a) ==
    IF a = "app.py" THEN {"raise", "text", "blank", "none", "str", "other"}
    ELSE {"raise", "text", "blank", "none", "other"}

Generated == <<" ", "A product launch drew attention.", " ">>

Envs(a) ==
    {[construct |-> c, shape |-> s] : c \in {"ok", "raise"}, s \in Shapes(a)}

PyStr(s) == [raised |-> FALSE, type |-> "str", val |-> s]

\* the result of the try block around the completion call
Completion(a, shape) ==
    IF a = "app.py"
    THEN CASE shape = "raise" -> PyStr(<<Tag(a), " Generation failed: ", "timeout">>)
           [] shape = "text"  -> PyStr(strip(Generated))
           [] shape = "blank" -> PyStr(<<"[{'generated_text': None}]">>)
           [] shape = "none"  -> PyStr(<<"[]">>)
           [] shape = "str"   -> PyStr(strip(Generated))
           [] shape = "other" -> PyStr(<<Tag(a), " Generation failed: ",
                                         "'str' object has no attribute 'get'">>)
    ELSE CASE shape = "raise" -> PyStr(<<Tag(a), " Generation failed: ", "timeout">>)
           [] shape = "text"  -> PyStr(strip(Generated))
           [] shape = "blank" -> PyStr(<<"No response generated.">>)
           [] shape = "none"  -> PyStr(<<"No response generated.">>)
           [] shape = "other" -> PyStr(<<Tag(a), " Generation failed: ",
                                         "'int' object has no attribute 'strip'">>)

\* get_textgen_pipeline / get_openai_client behind st.cache_resource: the
\* handle for the token ("pipe", or "None"), whether a construction was
\* attempted, and the store afterwards
ConstructUnguarded(a, store, token, construct) ==
    IF token \in DOMAIN store
    THEN [raised |-> FALSE, handle |-> store[token], built |-> 0, store |-> store]
    ELSE IF construct = "raise"
    THEN [raised |-> TRUE, handle |-> "None", built |-> 1, store |-> store]
    ELSE [raised |-> FALSE, handle |-> "pipe", built |-> 1,
          store |-> (token :> "pipe") @@ store]
get_backend(a, store, token, construct) ==
    IF token \in DOMAIN store
    THEN [raised |-> FALSE, handle |-> store[token], built |-> 0, store |-> store]
    ELSE IF NoToken(a, token)
    THEN [raised |-> FALSE, handle |-> "None", built |-> 0,
          store |-> (token :> "None") @@ store]
    ELSE LET h == IF construct = "ok" THEN "pipe" ELSE "None"
         IN  [raised |-> FALSE, handle |-> h, built |-> 1,
              store |-> (token :> h) @@ store]

\* the body of get_hf_explanation / get_openai_explanation
get_explanation(a, store, p, token, env) ==
    LET prompt == build_explanation_prompt(a, p.keyword, p.date, p.direction)
    IN  IF NoToken(a, token)
        THEN [ret |-> PyStr(Fallback(p.keyword, p.date, p.direction)),
              built |-> 0, invoked |-> 0, store |-> store, prompt |-> << >>]
        ELSE LET b == get_backend(a, store, token, env.construct)
             IN  IF b.raised
                 THEN [ret |-> [raised |-> TRUE, type |-> "", val |-> << >>],
                       built |-> b.built, invoked |-> 0, store |-> b.store,
                       prompt |-> << >>]
                 ELSE IF b.handle # "None"
                 THEN [ret |-> Completion(a, env.shape), built |-> b.built,
                       invoked |-> 1, store |-> b.store, prompt |-> prompt]
                 ELSE [ret |-> PyStr(Unavailable(a)), built |-> b.built,
                       invoked |-> 0, store |-> b.store, prompt |-> << >>]

NoEnv == [construct |-> "", shape |-> ""]

NoECall ==
    [point |-> [keyword |-> "", date |-> [y |-> 0, m |-> 0, d |-> 0], direction |-> ""],
     token |-> None, hit |-> FALSE, env |-> NoEnv, ret |-> PyStr(<< >>),
     built |-> 0, invoked |-> 0, prompt |-> << >>]

InitExplain ==
    /\ app \in Apps
    /\ pipes = << >>
    /\ expl = << >>
    /\ built = 0
    /\ invoked = 0
    /\ ecalls = 0
    /\ ecall = NoECall
    /\ NoAnnotate /\ NoFetch

\* the explanation asked for with arguments seen before: the stored string
ExplainCached(p, token) ==
    /\ ecalls < MaxExplain
    /\ <<p, token>> \in DOMAIN expl
    /\ ecalls' = ecalls + 1
    /\ ecall' = [NoECall EXCEPT !.point = p, !.token = token, !.hit = TRUE,
                                !.ret = expl[<<p, token>>]]
    /\ UNCHANGED <<app, pipes, expl, built, invoked, annVars, fetchVars>>

\* the explanation asked for with new arguments: the body runs; what it
\* returns is stored unless it raised
ExplainRun(p, token) ==
    /\ ecalls < MaxExplain
    /\ <<p, token>> \notin DOMAIN expl
    /\ \E env \in Envs(app) :
         LET r == get_explanation(app, pipes, p, token, env)
         IN  /\ ecall' = [point |-> p, token |-> token, hit |-> FALSE,
                          env |-> IF r.built = 0 /\ r.invoked = 0 THEN NoEnv
                                  ELSE IF r.built = 0
                                  THEN [env EXCEPT !.construct = ""]
                                  ELSE IF r.invoked = 0
                                  THEN [env EXCEPT !.shape = ""] ELSE env,
                          ret |-> r.ret, built |-> r.built, invoked |-> r.invoked,
                          prompt |-> r.prompt]
             /\ pipes' = r.store
             /\ built' = built + r.built
             /\ invoked' = invoked + r.invoked
             /\ expl' = IF r.ret.raised THEN expl ELSE (<<p, token>> :> r.ret) @@ expl
    /\ ecalls' = ecalls + 1
    /\ UNCHANGED <<app, annVars, fetchVars>>

NextExplain ==
    \/ \E p \in Anomalies, token \in Tokens(app) : ExplainCached(p, token)
    \/ \E p \in Anomalies, token \in Tokens(app) : ExplainRun(p, token)

SpecExplain == InitExplain /\ [][NextExplain]_vars

\* ---- the last explanation call ----
Explained == ecalls > 0 /\ ~ecall.hit

\* no credential configured: the token absent, empty, or the placeholder
NoCredential == ecall.token \in {None, Str(<< >>), Str(<<Placeholder(app)>>)}

Has(s, piece) == \E i \in DOMAIN s : s[i] = piece

DigitValue(c) == CHOOSE n \in 0..9 : Digits10[n + 1] = c

\* s holds the date written YYYY-MM-DD
HasIsoDate(s, date) ==
    \E i \in 1..(Len(s) - 9) :
        /\ \A j \in {0, 1, 2, 3, 5, 6, 8, 9} : s[i + j] \in Range(Digits10)
        /\ s[i + 4] = "-" /\ s[i + 7] = "-"
        /\ date.y = 1000 * DigitValue(s[i]) + 100 * DigitValue(s[i + 1])
                    + 10 * DigitValue(s[i + 2]) + DigitValue(s[i + 3])
        /\ date.m = 10 * DigitValue(s[i + 5]) + DigitValue(s[i + 6])
        /\ date.d = 10 * DigitValue(s[i + 8]) + DigitValue(s[i + 9])

\* C7: with no credential configured the explanation step constructs and
\* invokes no backend and returns a string that contains the keyword, the
\* date as YYYY-MM-DD and the direction word.
C7_FallbackNamesAll ==
    (Explained /\ NoCredential) =>
        /\ ecall.built = 0 /\ ecall.invoked = 0
        /\ ~ecall.ret.raised /\ ecall.ret.type = "str"
        /\ Has(ecall.ret.val, ecall.point.keyword)
        /\ HasIsoDate(ecall.ret.val, ecall.point.date)
        /\ Has(ecall.ret.val, ecall.point.direction)

\* what the code returns there: the date and the direction, no backend
FallbackInCode ==
    (Explained /\ NoCredential) =>
        /\ ecall.built = 0 /\ ecall.invoked = 0
        /\ ~ecall.ret.raised /\ ecall.ret.type = "str"
        /\ HasIsoDate(ecall.ret.val, ecall.point.date)
        /\ Has(ecall.ret.val, ecall.point.direction)

\* C8: with a credential configured, a backend that cannot be constructed
\* and a completion call that raises both end in a plain-text string, and so
\* does every other path: the explanation step never raises.
C8_AlwaysAString ==
    ecalls > 0 =>
        /\ ~ecall.ret.raised
        /\ ecall.ret.type = "str"
        /\ (ecall.built = 1 /\ ecall.env.construct = "raise") =>
              /\ ecall.invoked = 0
              /\ ecall.ret.val = Unavailable(app)
        /\ (ecall.invoked = 1 /\ ecall.env.shape = "raise") =>
              /\ ecall.ret.val[1] = Tag(app)
              /\ ecall.ret.val[2] = " Generation failed: "

\* a credential whose backend could not be constructed
C8_Witness ==
    /\ Explained
    /\ ~NoToken(app, ecall.token)
    /\ ecall.built = 1
    /\ ecall.env.construct = "raise"
    /\ ecall.invoked = 0
    /\ ecall.ret = PyStr(Unavailable(app))

=============================================================================
